---- MODULE Spec2Model ----
(***************************************************************************)
(* A model of the storage-mapping layer, the generic query handler and the *)
(* message model of the Firefly framework:                                 *)
(*   - RdbStorageInterface (infrastructure/repository/                     *)
(*     rdb_storage_interface.py): CRUD entry points, connection handling,  *)
(*     column / index derivation, document serialization, the column to    *)
(*     value mapping and query generation from templates;                  *)
(*   - QueryService (domain/service/core/query_service.py);                *)
(*   - Event (domain/entity/messaging/event.py);                           *)
(*   - Extension (domain/service/core/extension.py);                       *)
(*   - UpdateEntity (domain/service/crud/update_entity.py).                *)
(* Each part has its own specification over the shared variables.          *)
(***************************************************************************)
EXTENDS Integers, Sequences, FiniteSets, TLC

VARIABLES
    \* ---- RdbStorageInterface, CRUD entry points ----
    connected,    \* has _ensure_connected run on this interface
    entities,     \* the in-memory entity objects: attributes per entity
    rows,         \* the stored rows: entity -> <<>> (no row) or <<snapshot>>
    calls,        \* primitives invoked by the last public operation, in order
    op,           \* the last public operation and its arguments
    \* ---- QueryService ----
    store,        \* the repository's entities, in storage order
    kwargs,       \* keyword arguments of the last QueryService call
    result,       \* what the last QueryService call returned or raised
    repoCalls,    \* repository operations performed by the last call, in order
    fault,        \* the repository operation that raises during the call, and what
    \* ---- column / index derivation, serialization ----
    etype,        \* an entity type: its dataclass fields, in declaration order
    map_all,      \* RdbStorageInterface._map_all
    map_indexes,  \* RdbStorageInterface._map_indexes
    instance,     \* an entity of type etype: field name -> value
    derived,      \* result of the last derivation applied to etype / instance
    \* ---- Event ----
    events,       \* the Event objects constructed so far, in order
    compared,     \* the last comparison e == other and what it evaluated to
    \* ---- Extension ----
    modules,      \* the extension's modules: importable or not, and their classes
    pc,           \* how many entries of self.modules initialize() has been through
    infra,        \* has load_infrastructure been called
    bus,          \* the system bus: the calls made on it, in order, and its error
    \* ---- UpdateEntity ----
    ucall,        \* the UpdateEntity call: its keyword arguments and how far it is
    registry,     \* the registry: the entity objects it hands out and the stored rows
    steps,        \* the registry and bus calls of the UpdateEntity call, in order
    \* ---- _generate_query ----
    sql_prefix,   \* RdbStorageInterface._sql_prefix, one element per path segment
    templates,    \* the template files that exist, and the text a template renders to
    generated     \* the last template resolution and the SQL it returned

storageVars == <<connected, entities, rows, calls, op>>
queryVars   == <<store, kwargs, result, repoCalls, fault>>
schemaVars  == <<etype, map_all, map_indexes, instance, derived>>
eventVars   == <<events, compared>>
extensionVars == <<modules, pc, infra, bus>>
updateVars  == <<ucall, registry, steps>>
templateVars == <<sql_prefix, templates, generated>>
otherVars   == <<eventVars, extensionVars, updateVars, templateVars>>
vars == <<connected, entities, rows, calls, op, store, kwargs, result, repoCalls, fault,
          etype, map_all, map_indexes, instance, derived, events, compared,
          modules, pc, infra, bus, ucall, registry, steps,
          sql_prefix, templates, generated>>

\* Python's None, where the value is otherwise a string.
None == "None"

(***************************************************************************)
(* Bounds                                                                  *)
(***************************************************************************)
\* datetime.now() returns one of the instants 1..MaxTime (0 stands for None).
MaxTime == 1

(***************************************************************************)
(* Part 1.  RdbStorageInterface: CRUD entry points                         *)
(***************************************************************************)

\* Entity classes used as inputs: which timestamp attributes the class has
\* (hasattr(entity, 'deleted_on') / hasattr(entity, 'updated_on')).
EntityIds == {"e1", "e2", "e3"}
HasDeletedOn(e) == e \in {"e1", "e3"}
HasUpdatedOn(e) == e \in {"e1"}

\* The storage primitives a backend implements.
Primitives == {"_add", "_all", "_find", "_remove", "_update", "_execute",
               "_get_table_columns", "_get_table_indexes"}

\* What a row keeps of an entity.
Snapshot(ent) == [deleted_on |-> ent.deleted_on, updated_on |-> ent.updated_on]

\* Backend primitives on the stored rows.
_add(rs, e, ent) == [rs EXCEPT ![e] = <<Snapshot(ent)>>]
_update(rs, e, ent) == IF rs[e] = <<>> THEN rs ELSE [rs EXCEPT ![e] = <<Snapshot(ent)>>]
_remove(rs, e) == [rs EXCEPT ![e] = <<>>]
\* truncate / drop empty the table of the entity type the statement was built for.
_execute(rs, sql, e) ==
    IF sql \in {"truncate_table.sql", "drop_table.sql"} /\ e \in EntityIds
      THEN [rs EXCEPT ![e] = <<>>]
      ELSE rs

\* _check_prerequisites: calls _ensure_connected.
_check_prerequisites == <<"_ensure_connected">>

Op(name, e, force, sql) == [name |-> name, entity |-> e, force |-> force, sql |-> sql]

add(e) ==
    /\ connected' = TRUE
    /\ rows' = _add(rows, e, entities[e])
    /\ calls' = _check_prerequisites \o <<"_add">>
    /\ op' = Op("add", e, FALSE, None)
    /\ UNCHANGED entities

all(e) ==
    /\ connected' = TRUE
    /\ calls' = _check_prerequisites \o <<"_all">>
    /\ op' = Op("all", e, FALSE, None)
    /\ UNCHANGED <<entities, rows>>

find(e) ==
    /\ connected' = TRUE
    /\ calls' = _check_prerequisites \o <<"_find">>
    /\ op' = Op("find", e, FALSE, None)
    /\ UNCHANGED <<entities, rows>>

remove_ignores_force(e, force) ==
    /\ connected' = TRUE
    /\ IF HasDeletedOn(e)
         THEN \E now \in 1..MaxTime :
                /\ entities' = [entities EXCEPT ![e].deleted_on = now]
                /\ rows' = _update(rows, e, entities'[e])
                /\ calls' = _check_prerequisites \o <<"_update">>
         ELSE /\ rows' = _remove(rows, e)
              /\ calls' = _check_prerequisites \o <<"_remove">>
              /\ UNCHANGED entities
    /\ op' = Op("remove", e, force, None)

remove_always_hard(e, force) ==
    /\ connected' = TRUE
    /\ rows' = _remove(rows, e)
    /\ calls' = _check_prerequisites \o <<"_remove">>
    /\ UNCHANGED entities
    /\ op' = Op("remove", e, force, None)

remove(e, force) ==
    /\ connected' = TRUE
    /\ IF HasDeletedOn(e) /\ ~force
         THEN \E now \in 1..MaxTime :
                /\ entities' = [entities EXCEPT ![e].deleted_on = now]
                /\ rows' = _update(rows, e, entities'[e])
                /\ calls' = _check_prerequisites \o <<"_update">>
         ELSE /\ rows' = _remove(rows, e)
              /\ calls' = _check_prerequisites \o <<"_remove">>
              /\ UNCHANGED entities
    /\ op' = Op("remove", e, force, None)

update(e) ==
    /\ connected' = TRUE
    /\ IF HasUpdatedOn(e)
         THEN \E now \in 1..MaxTime :
                /\ entities' = [entities EXCEPT ![e].updated_on = now]
                /\ rows' = _update(rows, e, entities'[e])
         ELSE /\ rows' = _update(rows, e, entities[e])
              /\ UNCHANGED entities
    /\ calls' = _check_prerequisites \o <<"_update">>
    /\ op' = Op("update", e, FALSE, None)

\* execute(sql, params): hands the statement to _execute.
execute(name, e, sql) ==
    /\ rows' = _execute(rows, sql, e)
    /\ calls' = <<"_execute">>
    /\ op' = Op(name, e, FALSE, sql)
    /\ UNCHANGED <<connected, entities>>

\* The template-driven operations: execute(*_generate_query(entity, template)).
clear(e) == execute("clear", e, "truncate_table.sql")
destroy(e) == execute("destroy", e, "drop_table.sql")
add_column(e) == execute("add_column", e, "add_column.sql")
drop_column(e) == execute("drop_column", e, "drop_column.sql")
create_index(e) == execute("create_index", e, "add_index.sql")
drop_index(e) == execute("drop_index", e, "drop_index.sql")
create_table(e) == execute("create_table", e, "create_table.sql")
create_database(e) == execute("create_database", e, "create_database.sql")

get_table_columns(e) ==
    /\ calls' = <<"_get_table_columns">>
    /\ op' = Op("get_table_columns", e, FALSE, None)
    /\ UNCHANGED <<connected, entities, rows>>

get_table_indexes(e) ==
    /\ calls' = <<"_get_table_indexes">>
    /\ op' = Op("get_table_indexes", e, FALSE, None)
    /\ UNCHANGED <<connected, entities, rows>>

\* disconnect(): _disconnect() is a no-op in this class.
disconnect ==
    /\ calls' = <<"_disconnect">>
    /\ op' = Op("disconnect", None, FALSE, None)
    /\ UNCHANGED <<connected, entities, rows>>

\* Statements handed to execute() directly.
SqlTexts == {"SELECT 1", "VACUUM"}

Add == \E e \in EntityIds : add(e) /\ UNCHANGED <<queryVars, schemaVars, otherVars>>
All == \E e \in EntityIds : all(e) /\ UNCHANGED <<queryVars, schemaVars, otherVars>>
Find == \E e \in EntityIds : find(e) /\ UNCHANGED <<queryVars, schemaVars, otherVars>>
Remove == \E e \in EntityIds, force \in BOOLEAN : remove(e, force) /\ UNCHANGED <<queryVars, schemaVars, otherVars>>
Update == \E e \in EntityIds : update(e) /\ UNCHANGED <<queryVars, schemaVars, otherVars>>
Execute == \E sql \in SqlTexts : execute("execute", None, sql) /\ UNCHANGED <<queryVars, schemaVars, otherVars>>
Clear == \E e \in EntityIds : clear(e) /\ UNCHANGED <<queryVars, schemaVars, otherVars>>
Destroy == \E e \in EntityIds : destroy(e) /\ UNCHANGED <<queryVars, schemaVars, otherVars>>
AddColumn == \E e \in EntityIds : add_column(e) /\ UNCHANGED <<queryVars, schemaVars, otherVars>>
DropColumn == \E e \in EntityIds : drop_column(e) /\ UNCHANGED <<queryVars, schemaVars, otherVars>>
CreateIndex == \E e \in EntityIds : create_index(e) /\ UNCHANGED <<queryVars, schemaVars, otherVars>>
DropIndex == \E e \in EntityIds : drop_index(e) /\ UNCHANGED <<queryVars, schemaVars, otherVars>>
CreateTable == \E e \in EntityIds : create_table(e) /\ UNCHANGED <<queryVars, schemaVars, otherVars>>
CreateDatabase == \E e \in EntityIds : create_database(e) /\ UNCHANGED <<queryVars, schemaVars, otherVars>>
GetTableColumns == \E e \in EntityIds : get_table_columns(e) /\ UNCHANGED <<queryVars, schemaVars, otherVars>>
GetTableIndexes == \E e \in EntityIds : get_table_indexes(e) /\ UNCHANGED <<queryVars, schemaVars, otherVars>>
Disconnect == disconnect /\ UNCHANGED <<queryVars, schemaVars, otherVars>>

\* Values of the other parts' variables while they are not exercised.
QueryIdle ==
    /\ store = <<>>
    /\ kwargs = <<>>
    /\ result = <<>>
    /\ repoCalls = <<>>
    /\ fault = <<>>

SchemaIdle ==
    /\ etype = <<>>
    /\ map_all = FALSE
    /\ map_indexes = FALSE
    /\ instance = <<>>
    /\ derived = <<>>

StorageIdle ==
    /\ connected = FALSE
    /\ entities = <<>>
    /\ rows = <<>>
    /\ calls = <<>>
    /\ op = <<>>

EventIdle ==
    /\ events = <<>>
    /\ compared = <<>>

ExtensionIdle ==
    /\ modules = <<>>
    /\ pc = 0
    /\ infra = FALSE
    /\ bus = <<>>

UpdateIdle ==
    /\ ucall = <<>>
    /\ registry = <<>>
    /\ steps = <<>>

TemplateIdle ==
    /\ sql_prefix = <<>>
    /\ templates = <<>>
    /\ generated = <<>>

OtherIdle ==
    /\ EventIdle
    /\ ExtensionIdle
    /\ UpdateIdle
    /\ TemplateIdle

\* After __init__: not connected, nothing stored, entities freshly built.
Init ==
    /\ connected = FALSE
    /\ entities = [e \in EntityIds |-> [deleted_on |-> 0, updated_on |-> 0]]
    /\ rows = [e \in EntityIds |-> <<>>]
    /\ calls = <<>>
    /\ op = Op("__init__", None, FALSE, None)
    /\ QueryIdle
    /\ SchemaIdle
    /\ OtherIdle

Next ==
    \/ Add
    \/ All
    \/ Find
    \/ Remove
    \/ Update
    \/ Execute
    \/ Clear
    \/ Destroy
    \/ AddColumn
    \/ DropColumn
    \/ CreateIndex
    \/ DropIndex
    \/ CreateTable
    \/ CreateDatabase
    \/ GetTableColumns
    \/ GetTableIndexes
    \/ Disconnect

Spec == Init /\ [][Next]_vars

\* The step just taken was remove(e, force) (op' names the operation of every step).
IsSoftRemove(o) == o.name = "remove" /\ ~o.force /\ HasDeletedOn(o.entity)
IsHardRemove(o) == o.name = "remove" /\ (o.force \/ ~HasDeletedOn(o.entity))

\* C1: remove(e) without force on an entity that has deleted_on sets
\* e.deleted_on to a timestamp, calls _update exactly once and never _remove,
\* and a row stored for e is still stored afterwards (now carrying the
\* deletion timestamp).
C1_SoftDelete ==
    [][IsSoftRemove(op') =>
         /\ entities'[op'.entity].deleted_on \in 1..MaxTime
         /\ calls' = <<"_ensure_connected", "_update">>
         /\ rows[op'.entity] # <<>> =>
              rows'[op'.entity] = <<Snapshot(entities'[op'.entity])>>
         /\ \A e \in EntityIds : rows[e] # <<>> => rows'[e] # <<>>]_vars

C1_Witness ==
    /\ IsSoftRemove(op)
    /\ rows[op.entity] # <<>>
    /\ rows[op.entity][1].deleted_on \in 1..MaxTime

\* C2: remove(e, force=True), and remove(e) on an entity without deleted_on,
\* call _remove exactly once and never _update, and leave every entity
\* attribute (deleted_on included) as it was.
C2_HardDelete ==
    [][IsHardRemove(op') =>
         /\ calls' = <<"_ensure_connected", "_remove">>
         /\ entities' = entities]_vars

\* A forced removal of an entity that has deleted_on and was soft-deleted before.
C2_Witness ==
    /\ op.name = "remove"
    /\ op.force
    /\ HasDeletedOn(op.entity)
    /\ entities[op.entity].deleted_on \in 1..MaxTime
    /\ calls = <<"_ensure_connected", "_remove">>
    /\ rows[op.entity] = <<>>

\* C3: in every public operation, _ensure_connected is called before any
\* storage primitive is invoked.
C3_ConnectionDiscipline ==
    \A i \in 1..Len(calls) :
       calls[i] \in Primitives => \E j \in 1..(i - 1) : calls[j] = "_ensure_connected"

(***************************************************************************)
(* Part 2.  QueryService                                                   *)
(***************************************************************************)

\* Bounds of the query inputs.
MaxStore == 2
MaxLimit == 2
MaxOffset == 2

\* The entities that may be stored (test fixture: User(name, email)).
User(id, name, email) == [id |-> id, name |-> name, email |-> email]
Users == {User(1, "foo", "foo@bar.com"), User(2, "bar", "bar@baz.com"),
          User(3, "foo", "foo@baz.com")}
UserIds == {u.id : u \in Users}

\* Criteria: boolean expression trees over field comparisons.
Attr(a) == [tag |-> "Attr", attr |-> a]
Lit(v) == [tag |-> "Lit", value |-> v]
BinaryOp(l, o, r) == [tag |-> "BinaryOp", l |-> l, o |-> o, r |-> r]
NameIs(v) == BinaryOp(Attr("name"), "==", Lit(v))
Trees == {NameIs("foo"),
          BinaryOp(NameIs("foo"), "or", NameIs("bar")),
          BinaryOp(NameIs("foo"), "and", BinaryOp(Attr("email"), "==", Lit("foo@baz.com")))}

\* BinaryOp.to_dict: the nested-mapping form of a tree.
RECURSIVE to_dict(_)
to_dict(t) ==
    IF t.tag = "BinaryOp"
      THEN [tag |-> "dict", l |-> to_dict(t.l), o |-> t.o, r |-> to_dict(t.r)]
      ELSE t

\* BinaryOp.from_dict: a nested mapping becomes a tree; a tree is taken as it is;
\* anything else (a str) cannot be subscripted.
RECURSIVE from_dict(_)
from_dict(d) ==
    CASE d.tag = "dict" ->
           LET l == from_dict(d.l)
               r == from_dict(d.r)
           IN IF l.tag = "error" \/ r.tag = "error"
                THEN [tag |-> "error"]
                ELSE BinaryOp(l, d.o, r)
      [] d.tag = "str" -> [tag |-> "error"]
      [] OTHER -> d

\* Serializer.serialize / deserialize on a nested mapping.
serialize(d) == [tag |-> "str", text |-> d]
deserialize(s) == s.text

\* The three forms criteria arrive in.
Forms == {"str", "dict", "tree"}
Encode(t, form) ==
    CASE form = "str" -> serialize(to_dict(t))
      [] form = "dict" -> to_dict(t)
      [] OTHER -> t

\* Evaluation of a criteria tree on an entity.
RECURSIVE Sat(_, _)
Sat(t, e) ==
    LET val(x) == IF x.tag = "Attr" THEN e[x.attr] ELSE x.value IN
    CASE t.o = "==" -> val(t.l) = val(t.r)
      [] t.o = "and" -> Sat(t.l, e) /\ Sat(t.r, e)
      [] t.o = "or" -> Sat(t.l, e) \/ Sat(t.r, e)

\* Sort keys: a sequence of (field, descending?) pairs.
SortKey(f, d) == [field |-> f, desc |-> d]
Sorts == {<<SortKey("name", FALSE)>>, <<SortKey("name", TRUE)>>,
          <<SortKey("name", FALSE), SortKey("id", TRUE)>>}

\* The order of the values of a field.
Rank(e, f) ==
    IF f = "id" THEN e.id
    ELSE IF e[f] = "bar" THEN 1 ELSE 2

\* a sorts strictly before b under the keys.
RECURSIVE Before(_, _, _)
Before(a, b, keys) ==
    IF keys = <<>> THEN FALSE
    ELSE LET k == Head(keys)
             x == Rank(a, k.field)
             y == Rank(b, k.field)
         IN IF x = y THEN Before(a, b, Tail(keys))
            ELSE IF k.desc THEN x > y ELSE x < y

\* Stable insertion of e into a sorted sequence, after its equals.
RECURSIVE Insert(_, _, _)
Insert(e, s, keys) ==
    IF s = <<>> THEN <<e>>
    ELSE IF Before(e, Head(s), keys) THEN <<e>> \o s
    ELSE <<Head(s)>> \o Insert(e, Tail(s), keys)

\* Stable multi-key sort, as the storage does it (ORDER BY).
RECURSIVE SortBy(_, _)
SortBy(s, keys) ==
    IF s = <<>> THEN <<>>
    ELSE Insert(s[Len(s)], SortBy(SubSeq(s, 1, Len(s) - 1), keys), keys)

Min(a, b) == IF a < b THEN a ELSE b

\* The elements at positions o .. o+l-1 (from 0) of s.
Window(s, o, l) ==
    IF o >= Len(s) \/ l <= 0 THEN <<>> ELSE SubSeq(s, o + 1, Min(o + l, Len(s)))

\* ---- Repository: a lazy collection over the store ----
\* A query under construction: what will be asked of the storage.
Repository == [criteria |-> <<>>, offset |-> <<>>, limit |-> <<>>, sort |-> <<>>]
Repo_filter(q, c) == [q EXCEPT !.criteria = <<c>>]
Repo_getitem(q, start, stop) == [q EXCEPT !.offset = <<start>>, !.limit = <<stop - start>>]
Repo_sort(q, keys) == [q EXCEPT !.sort = <<keys>>]

Matching(st, q) ==
    IF q.criteria = <<>> THEN st ELSE SelectSeq(st, LAMBDA e : Sat(q.criteria[1], e))

\* len(): the count query.
Repo_len(st, q) == Len(Matching(st, q))

\* list(): the fetch; the storage filters, orders, then bounds.
Repo_list(st, q) ==
    LET sorted == IF q.sort = <<>> THEN Matching(st, q) ELSE SortBy(Matching(st, q), q.sort[1])
    IN IF q.offset = <<>> \/ q.limit = <<>>
         THEN sorted
         ELSE Window(sorted, q.offset[1], q.limit[1])

\* What a call returns or raises.
Return(kind, items, offset, limit, total) ==
    [kind |-> kind, items |-> items, offset |-> offset, limit |-> limit,
     total |-> total, error |-> None]
Raise(error) ==
    [kind |-> "raise", items |-> <<>>, offset |-> 0, limit |-> 0, total |-> 0,
     error |-> error]
NoCall == [kind |-> "none", items |-> <<>>, offset |-> 0, limit |-> 0, total |-> 0,
           error |-> None]

\* find(id): one match or an error.
Repo_find(st, id) ==
    LET found == SelectSeq(st, LAMBDA e : e.id = id) IN
    IF Len(found) = 0 THEN Raise("NoResultFound")
    ELSE IF Len(found) > 1 THEN Raise("MultipleResultsFound")
    ELSE Return("entity", found, 0, 0, 0)

\* Envelope.wrap(items).set_range(offset, limit, total)
Envelope_set_range(items, offset, limit, total) ==
    Return("Envelope", items, offset, limit, total)

\* Keyword arguments: each is <<>> (not passed) or <<value>>.
Kwargs(id, criteria, sort, limit, offset) ==
    [id |-> id, criteria |-> criteria, sort |-> sort, limit |-> limit, offset |-> offset]
Opt(S) == {<<>>} \cup {<<x>> : x \in S}
KwargsSet ==
    {Kwargs(id, c, s, l, o) :
        id \in Opt(UserIds),
        c \in Opt({Encode(t, f) : t \in Trees, f \in Forms}),
        s \in Opt(Sorts),
        l \in Opt(0..MaxLimit),
        o \in Opt(0..MaxOffset)}

\* Variant of Criteria: a str is not deserialized before from_dict.
Criteria_no_deserialize(kw) == from_dict(kw.criteria[1])

\* The criteria handed to filter(): deserialized if a str, then from_dict.
Criteria(kw) ==
    LET criteria == kw.criteria[1] IN
    from_dict(IF criteria.tag = "str" THEN deserialize(criteria) ELSE criteria)

\* Variant of Query_collection: the bounded fetch is made first and the sort
\* is applied to the fetched page.
Query_collection_sorts_page(st, kw) ==
    LET hasRange == kw.limit # <<>> /\ kw.offset # <<>>
        limit == IF hasRange THEN kw.limit[1] ELSE 0
        offset == IF hasRange THEN kw.offset[1] ELSE 0
        filtered == IF kw.criteria # <<>>
                      THEN Repo_filter(Repository, Criteria(kw))
                      ELSE Repository
        count == Repo_len(st, filtered)
        sliced == IF hasRange
                    THEN Repo_getitem(filtered, offset, offset + limit)
                    ELSE filtered
        page == Repo_list(st, sliced)
        items == IF kw.sort # <<>> THEN SortBy(page, kw.sort[1]) ELSE page
    IN [ret |-> IF hasRange
                  THEN Envelope_set_range(items, offset, limit, count - 1)
                  ELSE Return("list", items, 0, 0, 0),
        calls |-> <<"list">>]

\* The part of __call__ after the identifier lookup.
Query_collection(st, kw) ==
    LET hasRange == kw.limit # <<>> /\ kw.offset # <<>>
        limit == IF hasRange THEN kw.limit[1] ELSE 0
        offset == IF hasRange THEN kw.offset[1] ELSE 0
        filtered == IF kw.criteria # <<>>
                      THEN Repo_filter(Repository, Criteria(kw))
                      ELSE Repository
        count == Repo_len(st, filtered)
        sliced == IF hasRange
                    THEN Repo_getitem(filtered, offset, offset + limit)
                    ELSE filtered
        sorted == IF kw.sort # <<>> THEN Repo_sort(sliced, kw.sort[1]) ELSE sliced
        trace == (IF kw.criteria # <<>> THEN <<"filter">> ELSE <<>>)
                  \o (IF hasRange THEN <<"len", "getitem">> ELSE <<>>)
                  \o (IF kw.sort # <<>> THEN <<"sort">> ELSE <<>>)
                  \o <<"list">>
    IN IF kw.criteria # <<>> /\ Criteria(kw).tag = "error"
         THEN [ret |-> Raise("TypeError"), calls |-> <<>>]
         ELSE [ret |-> IF hasRange
                         THEN Envelope_set_range(Repo_list(st, sorted), offset, limit, count - 1)
                         ELSE Return("list", Repo_list(st, sorted), 0, 0, 0),
               calls |-> trace]

\* Variant of __call__: the identifier lookup is skipped when criteria are passed.
QueryService_call_criteria_first(st, kw) ==
    IF kw.id # <<>> /\ kw.criteria = <<>>
      THEN [ret |-> Repo_find(st, kw.id[1]), calls |-> <<"find">>]
      ELSE Query_collection(st, kw)

\* QueryService.__call__(**kwargs)
QueryService_call(st, kw) ==
    IF kw.id # <<>>
      THEN LET found == Repo_find(st, kw.id[1]) IN
           [ret |-> IF found.error = "KeyError" THEN Raise("MissingArgument") ELSE found,
            calls |-> <<"find">>]
      ELSE Query_collection(st, kw)

\* A failure of the storage behind the repository: the repository operation
\* during which it raises, and the error.
Fault(o, error) == [op |-> o, error |-> error]
NoFault == Fault("none", None)
Faults ==
    {NoFault} \cup
    {Fault(o, e) : o \in {"find", "filter", "len", "getitem", "sort", "list"},
                   e \in {"NoResultFound", "MultipleResultsFound", "KeyError"}}

\* QueryService.__call__ with the storage raising as f says: find is called
\* inside the try of lines 32-36, which turns a KeyError into
\* MissingArgument; the other operations are made outside it.
QueryService_call_storage_error(st, kw, f) ==
    IF kw.id # <<>>
      THEN LET found == IF f.op = "find" THEN Raise(f.error) ELSE Repo_find(st, kw.id[1]) IN
           [ret |-> IF found.error = "KeyError" THEN Raise("MissingArgument") ELSE found,
            calls |-> <<"find">>]
      ELSE LET r == Query_collection(st, kw)
               at == {k \in DOMAIN r.calls : r.calls[k] = f.op}
           IN IF at = {} THEN r
              ELSE [ret |-> Raise(f.error),
                    calls |-> SubSeq(r.calls, 1, CHOOSE k \in at : \A j \in at : k <= j)]

\* registry(User).append(user): the repository gains an entity.
RepoAppend ==
    /\ result = NoCall
    /\ Len(store) < MaxStore
    /\ \E u \in Users :
         /\ \A i \in 1..Len(store) : store[i] # u
         /\ store' = Append(store, u)
    /\ UNCHANGED <<kwargs, result, repoCalls, fault, storageVars, schemaVars, otherVars>>

\* The bus hands the pending query to the service.
Query ==
    /\ result = NoCall
    /\ LET r == QueryService_call(store, kwargs) IN
         /\ result' = r.ret
         /\ repoCalls' = r.calls
    /\ UNCHANGED <<store, kwargs, fault, storageVars, schemaVars, otherVars>>

\* An empty repository and a query about to be served.
InitQuery ==
    /\ store = <<>>
    /\ kwargs \in KwargsSet
    /\ result = NoCall
    /\ repoCalls = <<>>
    /\ fault = NoFault
    /\ StorageIdle
    /\ SchemaIdle
    /\ OtherIdle

NextQuery ==
    \/ RepoAppend
    \/ Query

SpecQuery == InitQuery /\ [][NextQuery]_vars

\* The bus hands the pending query to the service while the storage fails.
QueryStorageError ==
    /\ result = NoCall
    /\ LET r == QueryService_call_storage_error(store, kwargs, fault) IN
         /\ result' = r.ret
         /\ repoCalls' = r.calls
    /\ UNCHANGED <<store, kwargs, fault, storageVars, schemaVars, otherVars>>

\* A repository of at most one entity, a query about to be served and the
\* failure the storage will have.
InitStorageError ==
    /\ store \in {<<>>} \cup {<<u>> : u \in Users}
    /\ kwargs \in KwargsSet
    /\ result = NoCall
    /\ repoCalls = <<>>
    /\ fault \in Faults
    /\ StorageIdle
    /\ SchemaIdle
    /\ OtherIdle

NextStorageError == QueryStorageError

SpecStorageError == InitStorageError /\ [][NextStorageError]_vars

\* ---- Properties of QueryService ----

\* The criteria tree a call's keyword arguments stand for.
KwTree(kw) == CHOOSE t \in Trees : \E f \in Forms : kw.criteria = <<Encode(t, f)>>

\* The stored entities the call is about, in storage order.
Expected(st, kw) ==
    IF kw.criteria = <<>> THEN st ELSE SelectSeq(st, LAMBDA e : Sat(KwTree(kw), e))

Range(s) == {s[i] : i \in 1..Len(s)}
Paginated(kw) == kw.limit # <<>> /\ kw.offset # <<>>

\* C16: an error raised by the repository or the storage while QueryService
\* runs, whatever its type and whichever operation raises it, is the error
\* the caller gets.
C16_ErrorsPropagate ==
    /\ result # NoCall
    /\ fault # NoFault
    /\ \E k \in DOMAIN repoCalls : repoCalls[k] = fault.op
    => result = Raise(fault.error)

\* C4: a paginated call returns an Envelope whose total is the number of
\* entities in the (optionally criteria-filtered) collection.
C4_PaginationTotal ==
    result.kind = "Envelope" => result.total = Len(Expected(store, kwargs))

C6_QueryById ==
    result # NoCall =>
      IF kwargs.id # <<>>
        THEN /\ repoCalls = <<"find">>
             /\ LET hits == {i \in 1..Len(store) : store[i].id = kwargs.id[1]} IN
                  IF hits = {}
                    THEN result = Raise("NoResultFound")
                    ELSE \E i \in hits : result = Return("entity", <<store[i]>>, 0, 0, 0)
        ELSE /\ \A i \in 1..Len(repoCalls) : repoCalls[i] # "find"
             /\ result.kind \in {"list", "Envelope"}

\* The identifier wins over criteria, sort and range that the entity found
\* would not have passed.
C6_Witness ==
    /\ result.kind = "entity"
    /\ kwargs.criteria # <<>>
    /\ kwargs.sort # <<>>
    /\ Paginated(kwargs)
    /\ ~Sat(KwTree(kwargs), result.items[1])

MaxFields == 3

\* A dataclass field with its metadata: id is "'id' in metadata" (and its
\* value); index is "absent" (no 'index' key), "True" (index=True) or an
\* index name (index='<name>'); unique is metadata.get('unique', False) is True.
Field(name, type, id, index, unique) ==
    [name |-> name, type |-> type, id |-> id, index |-> index, unique |-> unique]

\* metadata.get('length', None), 0 standing for None.
FieldLength(f) == IF f.name = "name" THEN 255 ELSE 0

IsPrivate(name) == name \in {"_secret"}

\* What a derivation returns or raises.
Derived(o, kind, items, error) == [op |-> o, kind |-> kind, items |-> items, error |-> error]
NotDerived == Derived("none", "none", <<>>, None)

\* ---- get_entity_indexes ----
TableName == "iam_users"
Index(table, columns, unique) ==
    [table |-> table, columns |-> columns, unique |-> unique, name |-> None]

IndexValues == {"absent", "True", "idx_name_email", "idx_other"}
IndexNames == {"idx_name_email", "idx_other"}

\* The loop of get_entity_indexes from field i on, ret being the list so far.
\* next(filter(...)) has no default: it raises StopIteration when ret holds no
\* Index of the name.
RECURSIVE get_entity_indexes_from(_, _, _)
get_entity_indexes_from(fs, i, ret) ==
    IF i > Len(fs) THEN Derived("get_entity_indexes", "list", ret, None)
    ELSE LET field_ == fs[i] IN
      IF field_.index = "absent" THEN get_entity_indexes_from(fs, i + 1, ret)
      ELSE IF field_.index = "True"
        THEN get_entity_indexes_from(fs, i + 1,
                 Append(ret, Index(TableName, <<field_.name>>, field_.unique)))
      ELSE LET hits == {k \in 1..Len(ret) : ret[k].name = field_.index} IN
        IF hits = {}
          THEN Derived("get_entity_indexes", "raise", <<>>, "StopIteration")
          ELSE LET k == CHOOSE h \in hits : \A g \in hits : h <= g IN
               get_entity_indexes_from(fs, i + 1,
                   [ret EXCEPT ![k].columns = Append(@, field_.name),
                               ![k].unique = @ \/ field_.unique])

get_entity_indexes(entity) == get_entity_indexes_from(entity, 1, <<>>)

\* Entity types for index derivation: fields named by position.
IndexFieldNames == <<"id", "name", "email", "phone">>
IndexedEntityTypes ==
    UNION {{[i \in 1..n |-> Field(IndexFieldNames[i], "str", i = 1, idx[i], uq[i])] :
              idx \in [1..n -> IndexValues], uq \in [1..n -> BOOLEAN]} :
           n \in 1..MaxFields}

GetEntityIndexes ==
    /\ derived = NotDerived
    /\ derived' = get_entity_indexes(etype)
    /\ UNCHANGED <<etype, map_all, map_indexes, instance, storageVars, queryVars, otherVars>>

InitIndexes ==
    /\ etype \in IndexedEntityTypes
    /\ map_all = FALSE
    /\ map_indexes = FALSE
    /\ instance = <<>>
    /\ derived = NotDerived
    /\ StorageIdle
    /\ QueryIdle
    /\ OtherIdle

NextIndexes == GetEntityIndexes

SpecIndexes == InitIndexes /\ [][NextIndexes]_vars

\* The names of the fields of fs whose index metadata is the name n, in order.
RECURSIVE ColumnsNamed(_, _)
ColumnsNamed(fs, n) ==
    IF fs = <<>> THEN <<>>
    ELSE (IF Head(fs).index = n THEN <<Head(fs).name>> ELSE <<>>) \o ColumnsNamed(Tail(fs), n)

\* C8: for two or more fields sharing an index name, get_entity_indexes
\* returns exactly one Index holding those fields, in declaration order, and
\* it is unique iff one of the fields is tagged unique.
C8_IndexMerge ==
    derived.op = "get_entity_indexes" =>
      \A n \in IndexNames :
         LET cols == ColumnsNamed(etype, n) IN
         Len(cols) >= 2 =>
           /\ derived.kind = "list"
           /\ \E k \in 1..Len(derived.items) :
                /\ derived.items[k].columns = cols
                /\ derived.items[k].unique =
                     (\E i \in 1..Len(etype) : etype[i].index = n /\ etype[i].unique)
                /\ \A j \in 1..Len(derived.items) :
                     (\E c \in 1..Len(cols) :
                        \E d \in 1..Len(derived.items[j].columns) :
                           derived.items[j].columns[d] = cols[c]) => j = k

\* ---- get_entity_columns ----
\* Column(name, type, length, is_id)
Column(name, type, length, is_id) ==
    [name |-> name, type |-> type, length |-> length, is_id |-> is_id]
ColumnOf(f) == Column(f.name, f.type, FieldLength(f), f.id)
\* Column(name='document', type='str'): the type is the string 'str', not the class.
DocumentColumn == Column("document", "'str'", 0, FALSE)

\* list.insert(1, x)
Insert1(ret, x) ==
    IF ret = <<>> THEN <<x>> ELSE <<Head(ret), x>> \o Tail(ret)

\* Variant of get_entity_columns: fields with index metadata are mapped
\* whether or not _map_indexes is set.
get_entity_columns_always_indexes(entity, mapAll, mapIndexes) ==
    LET mapped(f) ==
            /\ ~IsPrivate(f.name)
            /\ \/ mapAll
               \/ f.index # "absent"
               \/ f.id
        ret == [i \in 1..Len(SelectSeq(entity, mapped)) |-> ColumnOf(SelectSeq(entity, mapped)[i])]
    IN Derived("get_entity_columns", "list",
               IF ~mapAll THEN Insert1(ret, DocumentColumn) ELSE ret, None)

get_entity_columns(entity, mapAll, mapIndexes) ==
    LET mapped(f) ==
            /\ ~IsPrivate(f.name)
            /\ \/ mapAll
               \/ mapIndexes /\ f.index # "absent"
               \/ f.id
        ret == [i \in 1..Len(SelectSeq(entity, mapped)) |-> ColumnOf(SelectSeq(entity, mapped)[i])]
    IN Derived("get_entity_columns", "list",
               IF ~mapAll THEN Insert1(ret, DocumentColumn) ELSE ret, None)

\* Entity types for column derivation: distinct field names, some private,
\* one called 'document'.
ColumnFieldNames == {"id", "name", "_secret", "document"}
ColumnFields ==
    {Field(n, "str", id, idx, FALSE) :
        n \in ColumnFieldNames, id \in BOOLEAN, idx \in {"absent", "True"}}
ColumnEntityTypes ==
    UNION {{fs \in [1..n -> ColumnFields] :
              \A i, j \in 1..n : i # j => fs[i].name # fs[j].name} :
           n \in 1..MaxFields}

GetEntityColumns ==
    /\ derived = NotDerived
    /\ derived' = get_entity_columns(etype, map_all, map_indexes)
    /\ UNCHANGED <<etype, map_all, map_indexes, instance, storageVars, queryVars, otherVars>>

InitColumns ==
    /\ etype \in ColumnEntityTypes
    /\ map_all \in BOOLEAN
    /\ map_indexes \in BOOLEAN
    /\ instance = <<>>
    /\ derived = NotDerived
    /\ StorageIdle
    /\ QueryIdle
    /\ OtherIdle

NextColumns == GetEntityColumns

SpecColumns == InitColumns /\ [][NextColumns]_vars

\* How many elements of s equal x.
Count(s, x) == Cardinality({i \in 1..Len(s) : s[i] = x})
Fields(fs) == {fs[i] : i \in 1..Len(fs)}

\* C9 (as stated): outside map-all mode there is one Column for each
\* identifier field, one for each field with index metadata and exactly one
\* 'document' column and nothing else; in map-all mode there is one Column per
\* public field and no 'document' column.
C9_ColumnCollapse ==
    derived.op = "get_entity_columns" =>
      IF map_all
        THEN /\ \A f \in Fields(etype) :
                  Count(derived.items, ColumnOf(f)) = IF IsPrivate(f.name) THEN 0 ELSE 1
             /\ Count(derived.items, DocumentColumn) = 0
             /\ Len(derived.items) = Cardinality({f \in Fields(etype) : ~IsPrivate(f.name)})
        ELSE /\ \A f \in Fields(etype) :
                  Count(derived.items, ColumnOf(f)) =
                     IF f.id \/ f.index # "absent" THEN 1 ELSE 0
             /\ Count(derived.items, DocumentColumn) = 1
             /\ Len(derived.items) =
                  Cardinality({f \in Fields(etype) : f.id \/ f.index # "absent"}) + 1

\* C9 (amended): outside map-all mode there is one Column for each public
\* identifier field, one for each public field with index metadata provided
\* _map_indexes is set, and exactly one added 'document' column, and nothing
\* else; in map-all mode there is one Column per public field and no added
\* 'document' column.
Mapped(f) == ~IsPrivate(f.name) /\ (map_all \/ f.id \/ (map_indexes /\ f.index # "absent"))
C9_ColumnCollapseAmended ==
    derived.op = "get_entity_columns" =>
      /\ \A f \in Fields(etype) :
            Count(derived.items, ColumnOf(f)) = IF Mapped(f) THEN 1 ELSE 0
      /\ Count(derived.items, DocumentColumn) = IF map_all THEN 0 ELSE 1
      /\ Len(derived.items) =
           Cardinality({f \in Fields(etype) : Mapped(f)}) + IF map_all THEN 0 ELSE 1

\* Not in map-all mode, _map_indexes set: an indexed field that is no
\* identifier has its Column, a plain field is folded into 'document'.
C9_Witness ==
    /\ derived.op = "get_entity_columns"
    /\ ~map_all
    /\ map_indexes
    /\ \E f, g \in Fields(etype) :
         /\ ~f.id /\ f.index # "absent" /\ Count(derived.items, ColumnOf(f)) = 1
         /\ ~g.id /\ g.index = "absent" /\ ~IsPrivate(g.name)
         /\ Count(derived.items, ColumnOf(g)) = 0
    /\ Count(derived.items, DocumentColumn) = 1

\* ---- _get_relationships, _serialize_entity ----
\* The largest number of fields of a serialized entity, and of related
\* aggregates held by a list or mapping field.
MaxDocFields == 2
MaxRelated == 2

\* Field types: a plain class, an AggregateRoot subclass, and type hints.
AggregateRootTypes == {"User"}
FieldTypes == {"str", "User", "List[User]", "Dict[str, User]", "List[str]"}
IsTypeHint(t) ==
    t \in {"List[User]", "Dict[str, User]", "List[str]", "Dict[str, str]", "Optional[str]"}
Origin(t) ==
    CASE t \in {"List[User]", "List[str]"} -> "List"
      [] t \in {"Dict[str, User]", "Dict[str, str]"} -> "Dict"
      [] OTHER -> "Union"
\* get_args(t): the type arguments, in order.
Args(t) ==
    CASE t = "List[User]" -> <<"User">>
      [] t = "List[str]" -> <<"str">>
      [] t = "Dict[str, User]" -> <<"str", "User">>
      [] t = "Dict[str, str]" -> <<"str", "str">>
      [] t = "Optional[str]" -> <<"str", "NoneType">>

\* Values held by an entity's fields.
Str(v) == [tag |-> "str", value |-> v]
Aggregate(id) == [tag |-> "object", id |-> id, state |-> "state"]
ListOf(items) == [tag |-> "list", items |-> items]
MapOf(items) == [tag |-> "map", items |-> items]
\* id_value() of an aggregate.
IdValue(a) == [tag |-> "id", id |-> a.id]
\* A ValueObject that is not an entity, and None.
ValueObject(v) == [tag |-> "valueobject", value |-> v]
NoneValue == [tag |-> "none"]
\* to_dict() of an aggregate nested in another: its own fields, by value.
Dumped(a) == [tag |-> "dumped", id |-> a.id, state |-> a.state]

\* The values a field of type t may hold (mappings: the values under the
\* keys "k1", "k2", ... in key order).
AggregateSeqs == UNION {[1..n -> {Aggregate(i) : i \in 1..2}] : n \in 0..MaxRelated}
ValuesOf(t) ==
    CASE t = "str" -> {Str("x")}
      [] t = "User" -> {Aggregate(1)}
      [] t = "List[User]" -> {ListOf(s) : s \in AggregateSeqs}
      [] t = "Dict[str, User]" -> {MapOf(s) : s \in AggregateSeqs}
      [] t = "List[str]" -> {ListOf(<<Str("x"), Str("y")>>)}
      [] t = "Dict[str, str]" -> {MapOf(<<Str("x")>>)}
      [] t = "list" -> {ListOf(<<Str("x")>>)}
      [] t = "dict" -> {MapOf(<<Str("y")>>)}
      [] t = "Money" -> {ValueObject("m")}
      [] t = "Optional[str]" -> {Str("x"), NoneValue}

\* Entity.to_dict of one field value: nested objects are dumped by value.
DumpValue(v) ==
    CASE v.tag = "object" -> Dumped(v)
      [] v.tag \in {"list", "map"} ->
           [v EXCEPT !.items = [i \in 1..Len(v.items) |->
                                   IF v.items[i].tag = "object"
                                     THEN Dumped(v.items[i]) ELSE v.items[i]]]
      [] OTHER -> v

\* entity.to_dict(force_all=True, skip=...): field name -> dumped value.
Entity_to_dict(fs, inst, skip) ==
    [n \in {fs[i].name : i \in 1..Len(fs)} \ skip |-> DumpValue(inst[n])]

\* _get_relationships: field name -> 'one' | 'many', for the fields it detects.
RelationSide(t) ==
    IF t \in AggregateRootTypes THEN "one"
    ELSE IF IsTypeHint(t) /\ Origin(t) = "List" /\ Args(t)[1] \in AggregateRootTypes
      THEN "many"
    ELSE "none"
_get_relationships(fs) ==
    LET related == {i \in 1..Len(fs) : ~IsPrivate(fs[i].name) /\ RelationSide(fs[i].type) # "none"}
    IN [n \in {fs[i].name : i \in related} |->
          RelationSide((CHOOSE f \in Fields(fs) : f.name = n).type)]

\* _serialize_entity: the document payload.
_serialize_entity(fs, inst) ==
    LET relationships == _get_relationships(fs)
        dump == Entity_to_dict(fs, inst, DOMAIN relationships)
        obj == [n \in {fs[i].name : i \in 1..Len(fs)} |->
                  IF n \in DOMAIN relationships
                    THEN IF relationships[n] = "one"
                           THEN IdValue(inst[n])
                           ELSE ListOf([i \in 1..Len(inst[n].items) |-> IdValue(inst[n].items[i])])
                    ELSE dump[n]]
    IN Derived("_serialize_entity", "str", serialize(obj), None)

\* Entity types for serialization: fields named by position, and an entity
\* of each type.
DocumentFieldNames == <<"owner", "members", "roles">>
DocumentEntityTypes ==
    UNION {{[i \in 1..n |-> Field(DocumentFieldNames[i], ts[i], FALSE, "absent", FALSE)] :
              ts \in [1..n -> FieldTypes]} :
           n \in 1..MaxDocFields}
Instances(fs) ==
    {inst \in [{fs[i].name : i \in 1..Len(fs)} ->
                 UNION {ValuesOf(t) : t \in FieldTypes}] :
        \A i \in 1..Len(fs) : inst[fs[i].name] \in ValuesOf(fs[i].type)}

SerializeEntity ==
    /\ derived = NotDerived
    /\ derived' = _serialize_entity(etype, instance)
    /\ UNCHANGED <<etype, map_all, map_indexes, instance, storageVars, queryVars, otherVars>>

InitDocument ==
    /\ etype \in DocumentEntityTypes
    /\ instance \in Instances(etype)
    /\ map_all = FALSE
    /\ map_indexes = FALSE
    /\ derived = NotDerived
    /\ StorageIdle
    /\ QueryIdle
    /\ OtherIdle

NextDocument == SerializeEntity

SpecDocument == InitDocument /\ [][NextDocument]_vars

\* The payload entry holds identifier values only.
OnlyIdentifiers(v) ==
    CASE v.tag = "id" -> TRUE
      [] v.tag \in {"list", "map"} -> \A i \in 1..Len(v.items) : v.items[i].tag = "id"
      [] OTHER -> FALSE

\* C10: in the payload of _serialize_entity, every field typed as an
\* aggregate root, or a list or mapping of aggregate roots, holds only the
\* identifier value(s) of the related aggregate(s).
C10_NoEmbedding ==
    derived.op = "_serialize_entity" =>
      \A f \in Fields(etype) :
         f.type \in {"User", "List[User]", "Dict[str, User]"} =>
            OnlyIdentifiers(deserialize(derived.items)[f.name])

\* ---- _data_fields ----
\* The field types of a stored entity: those above, the plain classes list
\* and dict, a ValueObject class and an Optional hint.
DataFieldTypes == FieldTypes \cup {"Dict[str, str]", "list", "dict", "Money", "Optional[str]"}

\* The identifier values of a list or mapping of aggregates.
IdValues(v) == [i \in 1..Len(v.items) |-> IdValue(v.items[i])]

\* The value _data_fields stores under column c (one pass of its loop).
DataValue(c, fs, inst) ==
    IF c.name = "document" /\ "document" \notin DOMAIN inst
      THEN _serialize_entity(fs, inst).items
    ELSE IF c.type \in AggregateRootTypes
      THEN IdValue(inst[c.name])
    ELSE IF IsTypeHint(c.type)
      THEN IF Origin(c.type) = "List"
             THEN IF Args(c.type)[1] \in AggregateRootTypes
                    THEN serialize(ListOf(IdValues(inst[c.name])))
                    ELSE serialize(inst[c.name])
             ELSE IF Args(c.type)[2] \in AggregateRootTypes
                    THEN MapOf(IdValues(inst[c.name]))
                    ELSE serialize(inst[c.name])
    ELSE IF c.type \in {"list", "dict"}
      THEN serialize(inst[c.name])
    ELSE IF inst[c.name].tag = "valueobject"
      THEN serialize(inst[c.name])
      ELSE inst[c.name]

\* The loop body assigns ret[f.name] in every branch but one: a type hint
\* whose origin is neither List nor Dict.
HasEntry(c) == ~(IsTypeHint(c.type) /\ Origin(c.type) \notin {"List", "Dict"})

\* _data_fields: column name -> stored value, a later column replacing an
\* earlier one of the same name.
_data_fields(fs, inst, mapAll, mapIndexes) ==
    LET cols == get_entity_columns(fs, mapAll, mapIndexes).items
        set == {i \in 1..Len(cols) : HasEntry(cols[i])}
        last(n) == CHOOSE i \in set :
                      /\ cols[i].name = n
                      /\ \A j \in set : cols[j].name = n => j <= i
    IN Derived("_data_fields", "dict",
               [n \in {cols[i].name : i \in set} |-> DataValue(cols[last(n)], fs, inst)],
               None)

\* Stored entity types: an id field, then fields named by position.
DataEntityTypes ==
    UNION {{<<Field("id", "str", TRUE, "absent", FALSE)>> \o
              [i \in 1..n |-> Field(DocumentFieldNames[i], ts[i], FALSE, "absent", FALSE)] :
              ts \in [1..n -> DataFieldTypes]} :
           n \in 1..MaxDocFields}
\* The entities of type fs, built field by field: the first n fields set.
RECURSIVE InstancesUpTo(_, _)
InstancesUpTo(fs, n) ==
    IF n = 0 THEN {<<>>}
    ELSE {inst @@ (fs[n].name :> v) :
            inst \in InstancesUpTo(fs, n - 1), v \in ValuesOf(fs[n].type)}
DataInstances(fs) == InstancesUpTo(fs, Len(fs))

DataFields ==
    /\ derived = NotDerived
    /\ derived' = _data_fields(etype, instance, map_all, map_indexes)
    /\ UNCHANGED <<etype, map_all, map_indexes, instance, storageVars, queryVars, otherVars>>

InitDataFields ==
    /\ etype \in DataEntityTypes
    /\ instance \in DataInstances(etype)
    /\ map_all \in BOOLEAN
    /\ map_indexes = FALSE
    /\ derived = NotDerived
    /\ StorageIdle
    /\ QueryIdle
    /\ OtherIdle

NextDataFields == DataFields

SpecDataFields == InitDataFields /\ [][NextDataFields]_vars

\* The columns of the entity that come from its fields.
FieldColumns == {f \in Fields(etype) : map_all \/ f.id}

\* C11: in the mapping of _data_fields an aggregate-root field maps to the
\* target's identifier value; a list field and a mapping field of aggregate
\* roots map to the serialized list and the serialized mapping of their
\* identifier values, as other list and mapping fields are serialized;
\* every other non-scalar value and every value object is serialized.
C11_DataFields ==
    derived.op = "_data_fields" =>
      \A f \in FieldColumns :
         LET v == instance[f.name]
             stored == derived.items[f.name]
         IN CASE f.type = "User" -> stored = IdValue(v)
              [] f.type = "List[User]" -> stored = serialize(ListOf(IdValues(v)))
              [] f.type = "Dict[str, User]" -> stored = serialize(MapOf(IdValues(v)))
              [] f.type \in {"List[str]", "Dict[str, str]", "list", "dict", "Money"} ->
                   stored = serialize(v)
              [] OTHER -> TRUE

\* C21: for every Column that get_entity_columns returns for the entity's
\* type, the mapping of _data_fields has an entry under the column's name,
\* whatever the declared type of the column.
C21_MappingTotal ==
    derived.op = "_data_fields" =>
      LET cols == get_entity_columns(etype, map_all, map_indexes).items
      IN \A i \in 1..Len(cols) : cols[i].name \in DOMAIN derived.items

(***************************************************************************)
(* Part 4.  Event (domain/entity/messaging/event.py)                       *)
(***************************************************************************)
\* The largest number of Event objects constructed.
MaxEvents == 2

\* Event classes used as inputs.  module: the dotted module path, one
\* element per segment; decorated: the class statement itself carries
\* @dataclass (ContainerRegistered, ContextsLoaded), so that dataclass()
\* gives the class an __eq__ of its own; a class declared without the
\* decorator inherits Event.__eq__.  bases: the classes it is an instance of.
EventClass(name, module, decorated, bases, contexts) ==
    [name |-> name, module |-> module, decorated |-> decorated, bases |-> bases,
     contexts |-> contexts]
EventClasses ==
    {EventClass("UserCreated", <<"iam", "domain", "event">>, FALSE,
                {"UserCreated", "Event", "Message", "object"}, {None}),
     EventClass("ContainerRegistered",
                <<"firefly", "domain", "event", "container_registered">>, TRUE,
                {"ContainerRegistered", "FrameworkEvent", "Event", "Message", "object"},
                {"a", "b"}),
     EventClass("ContextsLoaded",
                <<"firefly", "domain", "event", "contexts_loaded">>, TRUE,
                {"ContextsLoaded", "FrameworkEvent", "Event", "Message", "object"},
                {None})}
ClassNamed(n) == CHOOSE c \in EventClasses : c.name = n
TypeNames == UNION {c.bases : c \in EventClasses} \cup {"int", "str"}
\* Values a caller may assign to the attribute.
AssignedContexts == {"other", None}

\* An Event object: its class, and its dataclass fields.
EventObject(cls, source_context, context) ==
    [cls |-> cls, source_context |-> source_context, context |-> context]

\* The generated __init__ followed by __post_init__: source_context is not
\* an __init__ parameter (init=False); it starts as None and is then set to
\* module.split('.')[0].
__post_init__(cls, context) == EventObject(cls, Head(ClassNamed(cls).module), context)

\* __str__: a dotted string, one element per segment.
__str__(e) ==
    IF e.source_context # None THEN <<e.source_context, e.cls>> ELSE <<e.cls>>

\* Things an event is compared with.
StrValue(segs) == [tag |-> "str", segs |-> segs]
TypeValue(name) == [tag |-> "type", name |-> name]
TupleValue(names) == [tag |-> "tuple", names |-> names]
EventValue(i, e) == [tag |-> "event", index |-> i, obj |-> e]
IntValue == [tag |-> "int"]
Strings ==
    {StrValue(<<sc, c.name>>) :
        sc \in {Head(d.module) : d \in EventClasses} \cup {"other"}, c \in EventClasses}
    \cup {StrValue(<<c.name>>) : c \in EventClasses}
Others(evs) ==
    Strings \cup {TypeValue(n) : n \in TypeNames}
            \cup {TupleValue({"Event"}), IntValue, NoneValue}
            \cup {EventValue(i, evs[i]) : i \in DOMAIN evs}

\* isinstance(self, other): "TypeError" unless other is a type or a tuple
\* of types.
isinstance(e, other) ==
    CASE other.tag = "type" ->
           IF other.name \in ClassNamed(e.cls).bases THEN "True" ELSE "False"
      [] other.tag = "tuple" ->
           IF other.names \cap ClassNamed(e.cls).bases # {} THEN "True" ELSE "False"
      [] OTHER -> "TypeError"

\* Event.__eq__ (lines 23-29).
Event__eq__(e, other) ==
    IF other.tag = "str" /\ other.segs = __str__(e) THEN "True"
    ELSE IF isinstance(e, other) = "TypeError" THEN "False"
    ELSE isinstance(e, other)

\* The __eq__ that @dataclass adds to a decorated class that does not
\* define one in its own body: field-by-field for the same class,
\* NotImplemented otherwise.
Dataclass__eq__(e, other) ==
    IF other.tag = "event" /\ other.obj.cls = e.cls
      THEN IF other.obj.source_context = e.source_context /\ other.obj.context = e.context
             THEN "True" ELSE "False"
      ELSE "NotImplemented"

\* type(e).__eq__(e, other)
ClassEq(e, other) ==
    IF ClassNamed(e.cls).decorated THEN Dataclass__eq__(e, other) ELSE Event__eq__(e, other)

\* The expression e == other, e being events[i]: type(e).__eq__, then the
\* reflected type(other).__eq__ when that returned NotImplemented, then
\* identity.
Equals(i, e, other) ==
    LET direct == ClassEq(e, other)
        reflected == IF other.tag = "event"
                       THEN ClassEq(other.obj, EventValue(i, e))
                       ELSE "NotImplemented"
    IN IF direct # "NotImplemented" THEN direct = "True"
       ELSE IF reflected # "NotImplemented" THEN reflected = "True"
       ELSE other.tag = "event" /\ other.index = i

Comparison(i, e, other, value) == [left |-> i, self |-> e, other |-> other, value |-> value]
NoComparison == Comparison(0, <<>>, NoneValue, FALSE)

\* e = Cls(...)
NewEvent ==
    /\ Len(events) < MaxEvents
    /\ \E c \in EventClasses : \E context \in c.contexts :
          events' = Append(events, __post_init__(c.name, context))
    /\ UNCHANGED <<compared, storageVars, queryVars, schemaVars,
                   extensionVars, updateVars, templateVars>>

\* e.source_context = v: Event is a dataclass that is not frozen.
AssignSourceContext ==
    /\ \E i \in DOMAIN events : \E v \in AssignedContexts :
          events' = [events EXCEPT ![i].source_context = v]
    /\ UNCHANGED <<compared, storageVars, queryVars, schemaVars,
                   extensionVars, updateVars, templateVars>>

\* e == other
Compare ==
    /\ \E i \in DOMAIN events : \E other \in Others(events) :
          compared' = Comparison(i, events[i], other, Equals(i, events[i], other))
    /\ UNCHANGED <<events, storageVars, queryVars, schemaVars,
                   extensionVars, updateVars, templateVars>>

InitEvent ==
    /\ events = <<>>
    /\ compared = NoComparison
    /\ StorageIdle
    /\ QueryIdle
    /\ SchemaIdle
    /\ ExtensionIdle
    /\ UpdateIdle
    /\ TemplateIdle

NextEvent == NewEvent \/ AssignSourceContext \/ Compare

SpecEvent == InitEvent /\ [][NextEvent]_vars

\* C12: source_context is set at construction to the first dotted segment
\* of the module defining the event's class, and no later step changes it
\* or the string identity derived from it.
C12_SourceContextImmutable ==
    [][/\ \A i \in DOMAIN events' \ DOMAIN events :
             events'[i].source_context = Head(ClassNamed(events'[i].cls).module)
       /\ \A i \in DOMAIN events :
             /\ events'[i].source_context = events[i].source_context
             /\ __str__(events'[i]) = __str__(events[i])]_vars

\* C13: for an Event e of any concrete subclass, e == s is true when s is
\* '<source_context>.<ClassName>', e == T is true for every type T that e
\* is an instance of, and e == x is false for every other string, type or
\* value.
C13_IdentityEquality ==
    compared.left # 0 /\ compared.other.tag # "event" =>
      LET e == compared.self
          x == compared.other
      IN compared.value <=>
           \/ x.tag = "str" /\ x.segs = <<e.source_context, e.cls>>
           \/ x.tag = "type" /\ x.name \in ClassNamed(e.cls).bases

\* C20: e == e is true, and e1 == e2 is true for two instances of the same
\* Event class with the same source_context.
C20_Reflexive ==
    compared.left # 0 /\ compared.other.tag = "event" =>
      LET e == compared.self
          x == compared.other
      IN /\ x.index = compared.left => compared.value
         /\ x.obj.cls = e.cls /\ x.obj.source_context = e.source_context => compared.value

(***************************************************************************)
(* Part 5.  Extension (domain/service/core/extension.py)                   *)
(***************************************************************************)
\* The largest number of classes in the modules of one extension.
MaxClasses == 2

\* Message types used as inputs.
Commands == {"CreateUser"}
Queries == {"Users"}
ModuleEvents == <<"DomainEntitiesLoaded", "ApiLoaded", "ApplicationServicesLoaded">>

\* A handler annotation of a class (__ff_command_handler, __ff_listener,
\* __ff_query_handler): absent, or a list of handler configurations, each
\* naming a message type (and, for an entity listener, a crud operation).
Handler(type, crud) == [type |-> type, crud |-> crud]
Absent == [present |-> FALSE, handlers |-> <<>>]
Annotated(hs) == [present |-> TRUE, handlers |-> hs]

\* A class found in a module: what it is a subclass of, its annotations,
\* what get_message() returns, and the commands of its __ff_port.
ExtClass(kind, command_handler, listener, query_handler, message, port) ==
    [kind |-> kind, command_handler |-> command_handler, listener |-> listener,
     query_handler |-> query_handler, message |-> message, port |-> port]
ExtClasses ==
    {ExtClass("Service", Absent, Absent, Absent, "CreateUser", <<>>),
     ExtClass("Service", Absent, Absent, Absent, "Users", <<>>),
     ExtClass("Service", Annotated(<<Handler("CreateUser", None)>>),
              Annotated(<<Handler("UserCreated", None)>>), Absent, "Users", <<>>),
     ExtClass("Middleware", Absent, Absent, Annotated(<<Handler("Users", None)>>),
              None, <<>>),
     ExtClass("Entity", Absent, Annotated(<<Handler("UserCreated", "create")>>), Absent,
              None, <<>>),
     ExtClass("Other", Absent, Absent, Absent, None, <<"RegisterPort">>)}

\* A module: can it be imported, and the classes in its __dict__, in order.
Module(importable, classes) == [importable |-> importable, classes |-> classes]
ClassSeqs(n) == UNION {[1..k -> ExtClasses] : k \in 0..n}
\* The n modules of an extension, holding at most budget classes together.
RECURSIVE ModuleLists(_, _)
ModuleLists(n, budget) ==
    IF n = 0 THEN {<<>>}
    ELSE UNION {{<<m>> \o rest : rest \in ModuleLists(n - 1, budget - Len(m.classes))} :
                  m \in {Module(FALSE, <<>>)} \cup {Module(TRUE, cs) : cs \in ClassSeqs(budget)}}

\* A call on the system bus: the method, the message type it is for, and
\* the class whose service instance the registered middleware wraps.
BusCall(o, type, by) == [op |-> o, type |-> type, by |-> by]
ClassId(m, i) == [m |-> m, i |-> i]
NoClass == ClassId(0, 0)
BusState(log, error) == [log |-> log, error |-> error]

\* SystemBus.add_command_handler / add_query_handler / add_event_listener:
\* a second handler for a Command or Query type is a configuration error.
\* Once an error is raised nothing further of the caller runs.
SystemBus_add(b, o, type, by) ==
    IF b.error # None THEN b
    ELSE IF /\ o \in {"add_command_handler", "add_query_handler"}
            /\ \E k \in DOMAIN b.log : b.log[k].op = o /\ b.log[k].type = type
      THEN BusState(b.log, "ConfigurationError")
      ELSE BusState(Append(b.log, BusCall(o, type, by)), None)
\* The same, accepting a second handler for a type.
SystemBus_add_unchecked(b, o, type, by) ==
    IF b.error # None THEN b
    ELSE BusState(Append(b.log, BusCall(o, type, by)), None)
\* SystemBus.dispatch / invoke
SystemBus_call(b, o, type) ==
    IF b.error # None THEN b
    ELSE BusState(Append(b.log, BusCall(o, type, NoClass)), None)

\* The calls _add_middleware makes for cls: per annotation in the order
\* command handlers, listeners, query handlers, one per handler.
MiddlewareCalls(cls) ==
    [k \in 1..Len(cls.command_handler.handlers) |->
        <<"add_command_handler", cls.command_handler.handlers[k].type>>]
    \o [k \in 1..Len(cls.listener.handlers) |->
        <<"add_event_listener", cls.listener.handlers[k].type>>]
    \o [k \in 1..Len(cls.query_handler.handlers) |->
        <<"add_query_handler", cls.query_handler.handlers[k].type>>]

RECURSIVE AddAllUnchecked(_, _, _)
AddAllUnchecked(b, cs, by) ==
    IF cs = <<>> THEN b
    ELSE AddAllUnchecked(SystemBus_add_unchecked(b, Head(cs)[1], Head(cs)[2], by), Tail(cs), by)
\* _add_middleware writing to the bus's registrations past its check.
_add_middleware_unchecked(b, cls, by) == AddAllUnchecked(b, MiddlewareCalls(cls), by)

RECURSIVE AddAll(_, _, _)
AddAll(b, cs, by) ==
    IF cs = <<>> THEN b
    ELSE AddAll(SystemBus_add(b, Head(cs)[1], Head(cs)[2], by), Tail(cs), by)
\* _add_middleware (lines 145-151)
_add_middleware(b, cls, by) == AddAll(b, MiddlewareCalls(cls), by)

\* ServiceExecutingMiddleware carrying one annotation.
Mw(command_handler, listener, query_handler) ==
    ExtClass("Middleware", command_handler, listener, query_handler, None, <<>>)

\* _add_service registering implicitly whether or not cls is annotated.
_add_service_always_implicit(b, cls, by) ==
    LET b1 == IF cls.command_handler.present
                THEN _add_middleware(b, Mw(cls.command_handler, Absent, Absent), by) ELSE b
        b2 == IF cls.listener.present
                THEN _add_middleware(b1, Mw(Absent, cls.listener, Absent), by) ELSE b1
        b3 == IF cls.query_handler.present
                THEN _add_middleware(b2, Mw(Absent, Absent, cls.query_handler), by) ELSE b2
        message == cls.message
    IN IF message \in Commands
         THEN _add_middleware(b3, Mw(Annotated(<<Handler(message, None)>>), Absent, Absent), by)
         ELSE _add_middleware(b3, Mw(Absent, Absent, Annotated(<<Handler(message, None)>>)), by)

\* _add_service (lines 153-170)
_add_service(b, cls, by) ==
    LET b1 == IF cls.command_handler.present
                THEN _add_middleware(b, Mw(cls.command_handler, Absent, Absent), by) ELSE b
        b2 == IF cls.listener.present
                THEN _add_middleware(b1, Mw(Absent, cls.listener, Absent), by) ELSE b1
        b3 == IF cls.query_handler.present
                THEN _add_middleware(b2, Mw(Absent, Absent, cls.query_handler), by) ELSE b2
        registered == \/ cls.command_handler.present
                      \/ cls.listener.present
                      \/ cls.query_handler.present
        message == cls.message
    IN IF registered THEN b3
       ELSE IF message \in Commands
         THEN _add_middleware(b, Mw(Annotated(<<Handler(message, None)>>), Absent, Absent), by)
         ELSE _add_middleware(b, Mw(Absent, Absent, Annotated(<<Handler(message, None)>>)), by)

\* _initialize_entity (lines 116-136): for every listener configuration
\* with crud 'create', an OnCreate middleware carrying all configurations.
RECURSIVE InitializeConfigs(_, _, _, _)
InitializeConfigs(b, configs, cls, by) ==
    IF configs = <<>> THEN b
    ELSE InitializeConfigs(
           IF Head(configs).crud = "create"
             THEN _add_middleware(b, Mw(Absent, cls.listener, Absent), by) ELSE b,
           Tail(configs), cls, by)
_initialize_entity(b, cls, by) ==
    IF cls.listener.present THEN InitializeConfigs(b, cls.listener.handlers, cls, by) ELSE b

\* _invoke_port_commands (lines 138-143), for a class without nested ports.
RECURSIVE _invoke_port_commands(_, _)
_invoke_port_commands(b, port) ==
    IF port = <<>> THEN b
    ELSE _invoke_port_commands(SystemBus_call(b, "invoke", Head(port)), Tail(port))

\* One pass of the loop of _load_module (lines 100-112).
LoadClass(b, cls, by) ==
    LET b1 == _invoke_port_commands(b, cls.port)
    IN CASE cls.kind = "Middleware" -> _add_middleware(b1, cls, by)
         [] cls.kind = "Service" -> _add_service(b1, cls, by)
         [] cls.kind = "Entity" -> _initialize_entity(b1, cls, by)
         [] OTHER -> b1
RECURSIVE LoadClasses(_, _, _, _)
LoadClasses(b, classes, m, i) ==
    IF i > Len(classes) THEN b
    ELSE LoadClasses(LoadClass(b, classes[i], ClassId(m, i)), classes, m, i + 1)

\* _load_module dispatching the event before it looks at the module.
_load_module_event_first(b, mod, m, event) ==
    LET b1 == SystemBus_call(b, "dispatch", event)
    IN IF ~mod.importable THEN b1 ELSE LoadClasses(b1, mod.classes, m, 1)

\* _load_module (lines 92-114)
_load_module(b, mod, m, event) ==
    IF ~mod.importable THEN b
    ELSE SystemBus_call(LoadClasses(b, mod.classes, m, 1), "dispatch", event)

\* _initialize_container (lines 61-69)
_initialize_container(b) == SystemBus_call(b, "dispatch", "ContainerInitialized")

\* initialize(): one step per entry of self.modules, in order ...
LoadModule ==
    /\ pc \in 0..2
    /\ bus.error = None
    /\ bus' = _load_module(bus, modules[pc + 1], pc + 1, ModuleEvents[pc + 1])
    /\ pc' = IF bus'.error = None THEN pc + 1 ELSE pc
    /\ UNCHANGED <<modules, infra, storageVars, queryVars, schemaVars,
                   eventVars, updateVars, templateVars>>

\* ... then _initialize_container.
InitializeContainer ==
    /\ pc = 3
    /\ bus.error = None
    /\ bus' = _initialize_container(bus)
    /\ pc' = 4
    /\ UNCHANGED <<modules, infra, storageVars, queryVars, schemaVars,
                   eventVars, updateVars, templateVars>>

\* load_infrastructure() (lines 58-59), called before, during or after.
LoadInfrastructure ==
    /\ ~infra
    /\ bus.error = None
    /\ bus' = _load_module(bus, modules[4], 4, "InfrastructureLoaded")
    /\ infra' = TRUE
    /\ UNCHANGED <<modules, pc, storageVars, queryVars, schemaVars,
                   eventVars, updateVars, templateVars>>

InitExtension ==
    /\ modules \in ModuleLists(4, MaxClasses)
    /\ pc = 0
    /\ infra = FALSE
    /\ bus = BusState(<<>>, None)
    /\ StorageIdle
    /\ QueryIdle
    /\ SchemaIdle
    /\ EventIdle
    /\ UpdateIdle
    /\ TemplateIdle

NextExtension == LoadModule \/ InitializeContainer \/ LoadInfrastructure

SpecExtension == InitExtension /\ [][NextExtension]_vars

\* The bus calls that carry the service instance of class i of module m.
EntriesBy(m, i) == SelectSeq(bus.log, LAMBDA c : c.by = ClassId(m, i))
\* Module m has been gone through to its end.
Completed(m) == IF m <= 3 THEN pc >= m ELSE infra /\ bus.error = None
IsAnnotated(cls) ==
    cls.command_handler.present \/ cls.listener.present \/ cls.query_handler.present
\* The registration a Service declares only through get_message().
ImplicitCall(cls) ==
    <<IF cls.message \in Commands THEN "add_command_handler" ELSE "add_query_handler",
      cls.message>>
\* The registrations a class stands for, in order.
ExpectedCalls(cls) ==
    CASE cls.kind = "Service" /\ ~IsAnnotated(cls) -> <<ImplicitCall(cls)>>
      [] cls.kind \in {"Service", "Middleware"} /\ IsAnnotated(cls) -> MiddlewareCalls(cls)
      [] cls.kind = "Entity" ->
           LET hs == cls.listener.handlers
               creates == Len(SelectSeq(hs, LAMBDA h : h.crud = "create"))
           IN [k \in 1..(creates * Len(hs)) |->
                 <<"add_event_listener", hs[((k - 1) % Len(hs)) + 1].type>>]
      [] OTHER -> <<>>
CallsOf(es) == [k \in 1..Len(es) |-> <<es[k].op, es[k].type>>]
Range4 == 1..4
ClassesOf(m) == IF modules[m].importable THEN DOMAIN modules[m].classes ELSE {}

\* C14: a Service without handler annotations gets exactly one
\* registration, for the type get_message() returns: a command handler if
\* that type is a Command, a query handler otherwise, never a listener.  A
\* Service with an annotation gets its declared registrations and no
\* implicit one.
C14_ImplicitRegistration ==
    \A m \in Range4 : Completed(m) =>
       \A i \in ClassesOf(m) :
          LET cls == modules[m].classes[i]
              es == EntriesBy(m, i)
          IN cls.kind = "Service" =>
               IF ~IsAnnotated(cls)
                 THEN /\ Len(es) = 1
                      /\ es[1].type = cls.message
                      /\ es[1].op = (IF cls.message \in Commands
                                       THEN "add_command_handler" ELSE "add_query_handler")
                 ELSE CallsOf(es) = MiddlewareCalls(cls)

\* A module with a Service without annotations has been loaded and the
\* bus holds its registration.
C14_Witness ==
    \E m \in Range4 : Completed(m) /\
       \E i \in ClassesOf(m) :
          /\ modules[m].classes[i].kind = "Service"
          /\ ~IsAnnotated(modules[m].classes[i])
          /\ EntriesBy(m, i) # <<>>

\* The Command / Query handler registrations among calls.
HandlerCalls(cs) ==
    {cs[k] : k \in {j \in DOMAIN cs : cs[j][1] \in {"add_command_handler", "add_query_handler"}}}

Dispatches(ev) == {k \in DOMAIN bus.log : bus.log[k].op = "dispatch" /\ bus.log[k].type = ev}
EntriesOfModule(m) == {k \in DOMAIN bus.log : bus.log[k].by.m = m}

\* C18: the entity, api and application-service modules are loaded in that
\* order; the loaded-event of a module that imports is dispatched exactly
\* once, after every class of the module has been registered; for a module
\* that cannot be imported no event is dispatched and nothing is
\* registered; ContainerInitialized is dispatched exactly once, after all
\* module events.
C18_LoadOrder ==
    /\ \A m \in 1..3 :
          LET d == Dispatches(ModuleEvents[m])
          IN /\ Cardinality(d) <= 1
             /\ pc >= m /\ modules[m].importable => Cardinality(d) = 1
             /\ ~modules[m].importable \/ pc < m => d = {}
             /\ \/ ~modules[m].importable
                \/ pc < m - 1
                \/ pc < m /\ bus.error = None
                => EntriesOfModule(m) = {}
             /\ \A k \in d :
                   /\ \A j \in EntriesOfModule(m) : j < k
                   /\ \A i \in ClassesOf(m) :
                         CallsOf(EntriesBy(m, i)) = ExpectedCalls(modules[m].classes[i])
                   /\ \A n \in 1..3 : n < m =>
                         /\ \A j \in EntriesOfModule(n) : j < k
                         /\ \A j \in Dispatches(ModuleEvents[n]) : j < k
    /\ LET c == Dispatches("ContainerInitialized")
       IN /\ Cardinality(c) <= 1
          /\ pc = 4 => Cardinality(c) = 1
          /\ pc < 4 => c = {}
          /\ \A k \in c : \A m \in 1..3 : \A j \in Dispatches(ModuleEvents[m]) : j < k

\* initialize() has returned for an extension with a module that cannot
\* be imported and a module whose classes registered.
C18_Witness ==
    /\ pc = 4
    /\ \E m \in 1..3 : ~modules[m].importable
    /\ \E m \in 1..3 : EntriesOfModule(m) # {}

(***************************************************************************)
(* Part 6.  RdbStorageInterface._generate_query                            *)
(***************************************************************************)
\* The longest text, in characters, a template renders to.
MaxSql == 3

\* Paths are sequences of segments ('sql/mysql/x.sql' is
\* <<"sql", "mysql", "x.sql">>), texts are sequences of characters.
Prefixes == {<<"sql">>, <<"mysql">>, <<"sql", "mysql">>}
FileNames == {"create_table.sql", "drop_table.sql"}
Whitespace == {" ", "\n"}
Chars == {"a"} \cup Whitespace
Texts == UNION {[1..n -> Chars] : n \in 0..MaxSql}
\* The template files a loader may hold.
TemplatePaths ==
    {pre \o <<f>> : pre \in Prefixes, f \in FileNames} \cup {<<"sql", "mysql">>}

\* f'{self._sql_prefix}/<file>' as the callers build it, and str.split('/').
PathOf(prefix, file) == prefix \o <<file>>

\* env.select_template(names): the first name that exists, or <<>>
\* (TemplatesNotFound).
RECURSIVE select_template(_, _)
select_template(names, existing) ==
    IF names = <<>> THEN <<>>
    ELSE IF Head(names) \in existing THEN Head(names)
    ELSE select_template(Tail(names), existing)

\* sql.split(): the maximal runs of non-whitespace characters.
RECURSIVE WordEnd(_, _)
WordEnd(text, n) ==
    IF n < Len(text) /\ text[n + 1] \notin Whitespace THEN WordEnd(text, n + 1) ELSE n
RECURSIVE split(_)
split(text) ==
    IF text = <<>> THEN <<>>
    ELSE IF Head(text) \in Whitespace THEN split(Tail(text))
    ELSE <<SubSeq(text, 1, WordEnd(text, 1))>>
           \o split(SubSeq(text, WordEnd(text, 1) + 1, Len(text)))
\* " ".join(words)
RECURSIVE join(_)
join(words) ==
    IF words = <<>> THEN <<>>
    ELSE IF Len(words) = 1 THEN words[1]
    ELSE words[1] \o <<" ">> \o join(Tail(words))

Generated(template, names, chosen, sql, error) ==
    [template |-> template, names |-> names, chosen |-> chosen, sql |-> sql, error |-> error]
NotGenerated == Generated(<<>>, <<>>, <<>>, <<>>, None)

\* _generate_query(entity, template) (lines 211-230): the names handed to
\* select_template are the template and 'sql/' + template.split('/')[1].
_generate_query(template, tpl) ==
    LET names == <<template, <<"sql", template[2]>> >>
        chosen == select_template(names, tpl.existing)
    IN IF chosen = <<>>
         THEN Generated(template, names, chosen, <<>>, "TemplatesNotFound")
         ELSE Generated(template, names, chosen, join(split(tpl.text)), None)

\* A public operation builds its query: f'{self._sql_prefix}/<file>'.
GenerateQuery ==
    /\ generated = NotGenerated
    /\ \E file \in FileNames :
          generated' = _generate_query(PathOf(sql_prefix, file), templates)
    /\ UNCHANGED <<sql_prefix, templates, storageVars, queryVars, schemaVars,
                   eventVars, extensionVars, updateVars>>

InitTemplate ==
    /\ sql_prefix \in Prefixes
    /\ templates \in [existing : SUBSET TemplatePaths, text : Texts]
    /\ generated = NotGenerated
    /\ StorageIdle
    /\ QueryIdle
    /\ SchemaIdle
    /\ EventIdle
    /\ ExtensionIdle
    /\ UpdateIdle

NextTemplate == GenerateQuery

SpecTemplate == InitTemplate /\ [][NextTemplate]_vars

\* C17: for every _sql_prefix and template file name, '<prefix>/<file>' is
\* tried first and, only if it does not exist, 'sql/<file>' with the same
\* file name; the returned SQL has no leading or trailing whitespace and no
\* two whitespace characters in a row.
C17_TemplateFallback ==
    generated # NotGenerated =>
      LET file == generated.template[Len(generated.template)]
          first == PathOf(sql_prefix, file)
          fallback == <<"sql", file>>
          sql == generated.sql
      IN /\ generated.names = <<first, fallback>>
         /\ IF first \in templates.existing THEN generated.chosen = first
            ELSE IF fallback \in templates.existing THEN generated.chosen = fallback
            ELSE generated.error = "TemplatesNotFound"
         /\ generated.error = None =>
               /\ sql # <<>> => sql[1] \notin Whitespace /\ sql[Len(sql)] \notin Whitespace
               /\ \A k \in 1..(Len(sql) - 1) :
                     ~(sql[k] \in Whitespace /\ sql[k + 1] \in Whitespace)

(***************************************************************************)
(* Part 7.  UpdateEntity (domain/service/crud/update_entity.py)            *)
(***************************************************************************)
\* The number of entities in the registry, and of values of an attribute.
MaxEntities == 2
MaxName == 2

\* The entities the registry holds at first: attribute name is 0.
EntityAttrs(name) == [name |-> name]
InitialEntities == [id \in 1..MaxEntities |-> EntityAttrs(0)]
Registry(objects, stored) == [objects |-> objects, rows |-> stored]

\* Keyword arguments of the call: the identifier, and optionally a new name
\* and a key the entity has no attribute for (<<>>: not passed).
UpdateKwargs(id, name, extra) == [id |-> id, name |-> name, extra |-> extra]
UpdateKwargsSet ==
    {UpdateKwargs(id, name, extra) :
        id \in 1..(MaxEntities + 1),
        name \in {<<>>} \cup {<<n>> : n \in 1..MaxName},
        extra \in {<<>>, <<1>>}}
UpdateCall(kw, update_fails, at, entity) ==
    [kwargs |-> kw, update_fails |-> update_fails, at |-> at, entity |-> entity]

\* A call on the registry or the bus and whether it returned normally.
Step(o, returned) == [op |-> o, returned |-> returned]

\* Where __call__ continues after the statement at position at, given
\* whether that statement raised: an exception ends the call.  An exception
\* of update taken as a normal return.
UpdateEntity_next_ignores_update_error(at, raised) ==
    CASE at = "start" -> IF raised THEN "raised" ELSE "found"
      [] at = "found" -> "set"
      [] at = "set" -> "updated"
      [] at = "updated" -> "returned"
      [] OTHER -> at
\* Lines 21-28 in order; nothing is caught.
UpdateEntity_next(at, raised) ==
    CASE at = "start" -> IF raised THEN "raised" ELSE "found"
      [] at = "found" -> "set"
      [] at = "set" -> IF raised THEN "raised" ELSE "updated"
      [] at = "updated" -> "returned"
      [] OTHER -> at

\* line 21: entity = self._registry(type_).find(id); NoResultFound when
\* the registry holds no such entity.
UpdateFind ==
    /\ ucall.at = "start"
    /\ LET id == ucall.kwargs.id
           found == id \in DOMAIN registry.objects
       IN /\ steps' = Append(steps, Step("find", found))
          /\ ucall' = [ucall EXCEPT !.at = UpdateEntity_next("start", ~found),
                                     !.entity = IF found THEN id ELSE 0]
    /\ UNCHANGED <<registry, storageVars, queryVars, schemaVars,
                   eventVars, extensionVars, templateVars>>

\* lines 22-24: every keyword argument the entity has an attribute for is
\* set on it (the identifier among them).
UpdateSetAttrs ==
    /\ ucall.at = "found"
    /\ registry' = [registry EXCEPT !.objects[ucall.entity].name =
                       IF ucall.kwargs.name # <<>> THEN ucall.kwargs.name[1] ELSE @]
    /\ ucall' = [ucall EXCEPT !.at = UpdateEntity_next("found", FALSE)]
    /\ UNCHANGED <<steps, storageVars, queryVars, schemaVars,
                   eventVars, extensionVars, templateVars>>

\* line 25: self._registry(type_).update(entity); the storage may raise.
UpdateUpdate ==
    /\ ucall.at = "set"
    /\ steps' = Append(steps, Step("update", ~ucall.update_fails))
    /\ registry' = IF ucall.update_fails THEN registry
                   ELSE [registry EXCEPT !.rows[ucall.entity] =
                                           registry.objects[ucall.entity]]
    /\ ucall' = [ucall EXCEPT !.at = UpdateEntity_next("set", ucall.update_fails)]
    /\ UNCHANGED <<storageVars, queryVars, schemaVars,
                   eventVars, extensionVars, templateVars>>

\* lines 26-28: self.dispatch(self._build_event(type_, 'update')); return.
UpdateDispatch ==
    /\ ucall.at = "updated"
    /\ steps' = Append(steps, Step("dispatch", TRUE))
    /\ ucall' = [ucall EXCEPT !.at = UpdateEntity_next("updated", FALSE)]
    /\ UNCHANGED <<registry, storageVars, queryVars, schemaVars,
                   eventVars, extensionVars, templateVars>>

InitUpdate ==
    /\ \E kw \in UpdateKwargsSet : \E fails \in BOOLEAN :
          ucall = UpdateCall(kw, fails, "start", 0)
    /\ registry = Registry(InitialEntities, InitialEntities)
    /\ steps = <<>>
    /\ StorageIdle
    /\ QueryIdle
    /\ SchemaIdle
    /\ EventIdle
    /\ ExtensionIdle
    /\ TemplateIdle

NextUpdate == UpdateFind \/ UpdateSetAttrs \/ UpdateUpdate \/ UpdateDispatch

SpecUpdate == InitUpdate /\ [][NextUpdate]_vars

\* Where a call was made, and whether it returned.
StepsAt(o) == {k \in DOMAIN steps : steps[k].op = o}
Raised(o) == \E k \in StepsAt(o) : ~steps[k].returned

\* C19: find precedes update, which precedes the dispatch of the update
\* event; the event is dispatched at most once and only if update
\* returned normally; if find raises, neither update nor dispatch happens
\* and no entity attribute is modified; if update raises, no event is
\* dispatched.
C19_UpdateOrder ==
    /\ \A u \in StepsAt("update") : \E f \in StepsAt("find") : f < u /\ steps[f].returned
    /\ \A d \in StepsAt("dispatch") : \E u \in StepsAt("update") : u < d /\ steps[u].returned
    /\ Cardinality(StepsAt("dispatch")) <= 1
    /\ Raised("find") =>
          /\ StepsAt("update") = {}
          /\ StepsAt("dispatch") = {}
          /\ registry = Registry(InitialEntities, InitialEntities)
    /\ Raised("update") => StepsAt("dispatch") = {}
    /\ ucall.at = "returned" =>
          /\ StepsAt("dispatch") # {}
          /\ registry.rows[ucall.entity] = registry.objects[ucall.entity]

\* A call that changed an attribute, stored the entity and dispatched.
C19_Witness ==
    /\ ucall.at = "returned"
    /\ StepsAt("dispatch") # {}
    /\ registry.objects[ucall.entity] # InitialEntities[ucall.entity]

====
